---- MODULE Spec2Model ----
(***************************************************************************)
(* Model of cldfbench_eurasianinventories.py: the identifier encoder       *)
(* compute_id, the grapheme normaliser normalize_grapheme and the          *)
(* inventory loop of Dataset.cmd_makecldf.                                 *)
(*                                                                         *)
(* A Python str is a sequence of code points (naturals); the empty str is  *)
(* << >>.  A call that can raise returns a record with a field "raised".   *)
(***************************************************************************)
EXTENDS Integers, Sequences, FiniteSets, TLC

VARIABLES
    lang_map,     \* dict built from etc/languages.csv: name -> slug(name)
    raw_data,     \* items of raw_data.items() the loop has reached, in order
    seg_pos,      \* 1-based position of the next token in cons + vows
    values,       \* list of ValueTable rows
    parameters,   \* list of (par_id, normalized, bipa_grapheme, desc)
    inventories,  \* list of inventories.csv rows
    counter,      \* the value id counter
    written,      \* the calls of args.writer.write made so far
    pc,           \* "loop", "done" or "aborted" (an exception left the run)
    text,         \* argument of the normalize_grapheme call under study
    once,         \* normalize_grapheme(text)
    twice,        \* normalize_grapheme(normalize_grapheme(text))
    s1, s2,       \* arguments of the two compute_id calls under study
    id1, id2,     \* their results
    phase         \* position of the function-level runs

vars == <<lang_map, raw_data, seg_pos, values, parameters, inventories,
          counter, written, pc, text, once, twice, s1, s2, id1, id2, phase>>

pipeVars == <<lang_map, raw_data, seg_pos, values, parameters, inventories,
              counter, written, pc>>

funVars == <<text, once, twice, s1, s2, id1, id2, phase>>

----------------------------------------------------------------------------
(* Bounds of the model.                                                    *)

MaxLangs == 2      \* languages in raw/phono_dbase.json
MaxTokens == 3     \* entries (consonants, vowels, tones) in the whole file
MaxTextLen == 4    \* length of the argument of normalize_grapheme
MaxIdLen == 2      \* length of the arguments of compute_id

----------------------------------------------------------------------------
(* Characters the code names.                                              *)

LParen == 40       \* "("
RParen == 41       \* ")"
LBracket == 91     \* "["
RBracket == 93     \* "]"
Hash == 35         \* "#"
Comma == 44        \* ","
LetterU == 117     \* "u"
Underscore == 95   \* "_"
IdWidth == 4       \* minimum number of hex digits per code point

None == [none |-> TRUE]

RECURSIVE SeqsUpTo(_, _)
SeqsUpTo(S, n) ==
    IF n = 0 THEN {<< >>}
    ELSE LET shorter == SeqsUpTo(S, n - 1)
         IN  shorter \cup {Append(q, c) : q \in shorter, c \in S}

----------------------------------------------------------------------------
(* Library functions the module calls, over the characters of the model.   *)

\* "{0:0{1}X}".format(n, width): upper-case hexadecimal, zero-padded to at
\* least width digits, never truncated.
HexDigit(d) == IF d < 10 THEN 48 + d ELSE 55 + d

RECURSIVE HexDigits(_)
HexDigits(n) ==
    IF n < 16 THEN <<HexDigit(n)>>
    ELSE Append(HexDigits(n \div 16), HexDigit(n % 16))

RECURSIVE ZeroPad(_, _)
ZeroPad(digits, width) ==
    IF Len(digits) >= width THEN digits ELSE ZeroPad(<<48>> \o digits, width)

FormatHex(n, width) == ZeroPad(HexDigits(n), width)

\* str(n) for a non-negative int: decimal digits.
RECURSIVE Str(_)
Str(n) == IF n < 10 THEN <<48 + n>> ELSE Append(Str(n \div 10), 48 + (n % 10))

\* unidecode(char): the ASCII transliteration of one character.  ASCII maps
\* to itself; U+00E1 to "a"; U+02B0 to "h"; a combining mark and a character
\* of a block without a table (U+10021) to "".
UnidecodeChar(c) ==
    IF c < 128 THEN <<c>>
    ELSE IF c = 225 THEN <<97>>
    ELSE IF c = 688 THEN <<104>>
    ELSE << >>

RECURSIVE Unidecode(_)
Unidecode(t) ==
    IF t = << >> THEN << >> ELSE UnidecodeChar(Head(t)) \o Unidecode(Tail(t))

\* clldutils.misc.slug on ASCII input: lower-case, then keep only letters
\* and digits (punctuation and whitespace are removed).
SlugChar(c) ==
    IF c >= 65 /\ c <= 90 THEN <<c + 32>>
    ELSE IF (c >= 97 /\ c <= 122) \/ (c >= 48 /\ c <= 57) THEN <<c>>
    ELSE << >>

RECURSIVE slug(_)
slug(t) == IF t = << >> THEN << >> ELSE SlugChar(Head(t)) \o slug(Tail(t))

\* unicodedata.normalize("NFC", text): canonical composition.  Over the
\* characters of the model the one composable pair is "a" + U+0301 -> U+00E1.
RECURSIVE NFC(_)
NFC(t) ==
    IF Len(t) < 2 THEN t
    ELSE IF t[1] = 97 /\ t[2] = 769 THEN <<225>> \o NFC(SubSeq(t, 3, Len(t)))
    ELSE <<t[1]>> \o NFC(Tail(t))

\* sep.join(parts)
RECURSIVE Join(_, _)
Join(sep, parts) ==
    IF parts = << >> THEN << >>
    ELSE IF Len(parts) = 1 THEN parts[1]
    ELSE parts[1] \o sep \o Join(sep, Tail(parts))

\* text.split(sep)[0]: the part before the first sep.
RECURSIVE SplitFirst(_, _)
SplitFirst(t, sep) ==
    IF t = << >> \/ Head(t) = sep THEN << >>
    ELSE <<Head(t)>> \o SplitFirst(Tail(t), sep)

\* text.replace(ch, "")
RECURSIVE Remove(_, _)
Remove(t, ch) ==
    IF t = << >> THEN << >>
    ELSE (IF Head(t) = ch THEN << >> ELSE <<Head(t)>>) \o Remove(Tail(t), ch)

----------------------------------------------------------------------------
(* compute_id                                                              *)

\* (variant: the code point cut to 16 bits before formatting)
CodepointReprTruncated(char) == <<LetterU>> \o FormatHex(char % 65536, IdWidth)

\* "u{0:0{1}X}".format(ord(char), 4)
CodepointRepr(char) == <<LetterU>> \o FormatHex(char, IdWidth)

RECURSIVE unicode_repr(_)
unicode_repr(t) ==
    IF t = << >> THEN << >> ELSE CodepointRepr(Head(t)) \o unicode_repr(Tail(t))

label(t) == slug(Unidecode(t))

compute_id(t) == label(t) \o <<Underscore>> \o unicode_repr(t)

----------------------------------------------------------------------------
(* normalize_grapheme                                                      *)

\* One "if text[0] == open and text[-1] == close: text = text[1:-1]".
\* text[0] raises IndexError on the empty string.
StripPair(r, open, close) ==
    IF r.raised THEN r
    ELSE IF r.value = << >> THEN [raised |-> TRUE, value |-> << >>]
    ELSE IF r.value[1] = open /\ r.value[Len(r.value)] = close
         THEN [raised |-> FALSE, value |-> SubSeq(r.value, 2, Len(r.value) - 1)]
    ELSE r

normalize_grapheme(t) ==
    StripPair(StripPair([raised |-> FALSE, value |-> NFC(t)], LParen, RParen),
              LBracket, RBracket)

----------------------------------------------------------------------------
(* The inputs of the model.                                                *)

LangA == <<76, 97, 110, 103, 65>>                 \* "LangA"
LangB == <<76, 97, 110, 103, 66>>                 \* "LangB"

\* The name columns of etc/languages.csv the model tries.
LanguageRows == {<<LangA>>, <<LangA, LangB>>}

\* Keys of raw/phono_dbase.json: "LangA" and "Lang,B#2".
RawLanguages == {LangA, <<76, 97, 110, 103, Comma, 66, Hash, 50>>}

\* Tokens of the cons and vows lists:
\* "k", "(k)", "(k\u02B0)", "a", "!" and "".
SegK == <<107>>
SegKMarginal == <<LParen, 107, RParen>>
SegKhMarginal == <<LParen, 107, 688, RParen>>
SegA == <<97>>
Segments == {SegK, SegKMarginal, SegKhMarginal, SegA, <<33>>, << >>}

\* The tones lists: [], ["", "55"] and ["55", "31"].
ToneLists == {<< >>, << << >>, <<53, 53>> >>, << <<53, 53>>, <<51, 49>> >>}

\* The token lists of at most n tokens (none when n is negative).
TokenLists(n) == IF n < 0 THEN {} ELSE SeqsUpTo(Segments, n)

\* Arguments of the normalize_grapheme runs: "(", ")", "[", "]", "a", U+0301.
TextChars == {LParen, RParen, LBracket, RBracket, 97, 769}

\* Arguments of the compute_id runs: "!", "A", "a", U+10021.
IdChars == {33, 65, 97, 65569}

----------------------------------------------------------------------------
(* clts.bipa[normalized]: the transcription system, a read-only table.     *)
(* A grapheme outside the table gives an UnknownSound.                     *)

bipa(normalized) ==
    IF normalized = <<107>>
    THEN [unknown |-> FALSE, grapheme |-> <<107>>,
          name |-> "voiceless velar stop consonant"]
    ELSE IF normalized = <<107, 688>>
    THEN [unknown |-> FALSE, grapheme |-> <<107, 688>>,
          name |-> "aspirated voiceless velar stop consonant"]
    ELSE IF normalized = <<97>>
    THEN [unknown |-> FALSE, grapheme |-> <<97>>,
          name |-> "unrounded open front vowel"]
    ELSE [unknown |-> TRUE, grapheme |-> << >>, name |-> ""]

----------------------------------------------------------------------------
(* Dataset.cmd_makecldf: the steps of the loop body.                       *)

Range(f) == {f[i] : i \in DOMAIN f}

\* tones = [tone for tone in langdata["tones"] if tone]
RECURSIVE NonEmptyTones(_)
NonEmptyTones(tones) ==
    IF tones = << >> THEN << >>
    ELSE (IF Head(tones) = << >> THEN << >> ELSE <<Head(tones)>>)
         \o NonEmptyTones(Tail(tones))

\* the row appended to inventories for the idx-th item (idx from 0)
InventoryRow(idx, language, langdata) ==
    [ID |-> idx + 1, Name |-> language, Contributor_ID |-> None,
     Source |-> << >>, URL |-> None,
     Tones |-> Join(<<Comma>>, NonEmptyTones(langdata.tones))]

\* (variant: vowels before consonants)
VowsThenCons(langdata) == langdata.vows \o langdata.cons

\* cons + vows
ConsThenVows(langdata) == langdata.cons \o langdata.vows

\* (variant: the flag taken from the normalized text)
MarginalOfNormalized(segment) ==
    LET n == normalize_grapheme(segment)
    IN  ~n.raised /\ n.value # << >> /\ n.value[1] = LParen

\* bool(segment[0] == "("), for a non-empty segment
Marginal(segment) == segment[1] = LParen

\* (variant: an unknown sound keeps the grapheme as its symbol)
ParameterTupleKeepSymbol(normalized) ==
    LET sound == bipa(normalized)
    IN  IF sound.unknown
        THEN <<<<85, 78, 75, Underscore>> \o compute_id(normalized),
               normalized, normalized, "">>
        ELSE <<<<66, 73, 80, 65, Underscore>> \o compute_id(normalized),
               normalized, sound.grapheme, sound.name>>

\* (par_id, normalized, bipa_grapheme, desc) with "UNK_" or "BIPA_"
ParameterTuple(normalized) ==
    LET sound == bipa(normalized)
    IN  IF sound.unknown
        THEN <<<<85, 78, 75, Underscore>> \o compute_id(normalized),
               normalized, << >>, "">>
        ELSE <<<<66, 73, 80, 65, Underscore>> \o compute_id(normalized),
               normalized, sound.grapheme, sound.name>>

\* (variant: the raw segment kept as the name of the parameter)
ParameterNameRaw(segment, normalized) == segment

\* the second component of the tuple appended to parameters
ParameterName(segment, normalized) == normalized

\* language.split("#")[0].replace(",", "")
lang_key(language) == Remove(SplitFirst(language, Hash), Comma)

\* (variant: d.get(key), which gives None for a missing key)
DictGet(d, key) ==
    [raised |-> FALSE, value |-> IF key \in DOMAIN d THEN d[key] ELSE None]

\* d[key], which raises KeyError for a missing key
GetItem(d, key) ==
    [raised |-> key \notin DOMAIN d,
     value |-> IF key \in DOMAIN d THEN d[key] ELSE None]

\* (variant: the normalized form stored as the value)
StoredValueNormalized(segment, normalized) == normalized

\* the "Value" of a row of values
StoredValue(segment, normalized) == segment

ValueRow(cnt, language_id, segment, normalized, par_id) ==
    [ID |-> Str(cnt), Language_ID |-> language_id,
     Marginal |-> Marginal(segment), Parameter_ID |-> par_id,
     Value |-> StoredValue(segment, normalized), Source |-> << >>]

\* (variant: the counter left as it is)
CounterKept(cnt) == cnt

\* counter += 1
NextCounter(cnt) == cnt + 1

\* segments: one row per element of set(parameters)
SegmentRows(params) ==
    {[ID |-> p[1], Name |-> p[2], BIPA |-> p[3], Description |-> p[4]] :
        p \in Range(params)}

\* languages: one row per row of etc/languages.csv
LanguageRowsOf(map) == {[ID |-> map[n], Name |-> n] : n \in DOMAIN map}

----------------------------------------------------------------------------
(* The inventory loop as a state machine.                                  *)

Current == raw_data[Len(raw_data)]

CurrentTokens == ConsThenVows(Current.langdata)

\* the inner loop has no token left (or no item was reached yet)
ItemDone == IF raw_data = << >> THEN TRUE ELSE seg_pos > Len(CurrentTokens)

\* the entries (consonants, vowels, tones) of the items reached so far
RECURSIVE EntryCount(_)
EntryCount(items) ==
    IF items = << >> THEN 0
    ELSE Len(Head(items).langdata.cons) + Len(Head(items).langdata.vows)
         + Len(Head(items).langdata.tones) + EntryCount(Tail(items))

InitPipe ==
    /\ \E rows \in LanguageRows :
          lang_map = [n \in Range(rows) |-> slug(n)]
    /\ raw_data = << >>
    /\ seg_pos = 1
    /\ values = << >>
    /\ parameters = << >>
    /\ inventories = << >>
    /\ counter = 1
    /\ written = << >>
    /\ pc = "loop"

FunOff ==
    /\ text = << >>
    /\ once = None
    /\ twice = None
    /\ s1 = << >>
    /\ s2 = << >>
    /\ id1 = None
    /\ id2 = None
    /\ phase = "off"

Init == InitPipe /\ FunOff

\* The outer loop reaches the next item of raw_data.items().
NextLanguage ==
    /\ pc = "loop"
    /\ ItemDone
    /\ Len(raw_data) < MaxLangs
    /\ \E language \in RawLanguages \ {raw_data[i].language : i \in DOMAIN raw_data},
          tones \in ToneLists :
          \E toks \in TokenLists(MaxTokens - EntryCount(raw_data) - Len(tones)) :
            \E k \in 0..Len(toks) :
              LET langdata == [cons |-> SubSeq(toks, 1, k),
                               vows |-> SubSeq(toks, k + 1, Len(toks)),
                               tones |-> tones]
              IN  /\ raw_data' = Append(raw_data,
                                 [language |-> language, langdata |-> langdata])
                  /\ inventories' = Append(inventories,
                                 InventoryRow(Len(raw_data), language, langdata))
    /\ seg_pos' = 1
    /\ UNCHANGED <<lang_map, values, parameters, counter, written, pc>>
    /\ UNCHANGED funVars

\* One pass of the inner loop body, for the token at seg_pos.
ProcessSegment ==
    /\ pc = "loop"
    /\ ~ItemDone
    /\ LET segment == CurrentTokens[seg_pos]
           norm == normalize_grapheme(segment)
           normalized == norm.value
           tuple == ParameterTuple(normalized)
           param == <<tuple[1], ParameterName(segment, normalized),
                      tuple[3], tuple[4]>>
           lookup == GetItem(lang_map, lang_key(Current.language))
       IN  IF segment = << >> \/ norm.raised
           THEN \* IndexError from segment[0] or inside normalize_grapheme
                /\ pc' = "aborted"
                /\ UNCHANGED <<seg_pos, values, parameters, counter>>
           ELSE IF lookup.raised
           THEN \* KeyError from lang_map[lang_key], after parameters.append
                /\ pc' = "aborted"
                /\ parameters' = Append(parameters, param)
                /\ UNCHANGED <<seg_pos, values, counter>>
           ELSE /\ parameters' = Append(parameters, param)
                /\ values' = Append(values,
                       ValueRow(counter, lookup.value, segment, normalized,
                                param[1]))
                /\ counter' = NextCounter(counter)
                /\ seg_pos' = seg_pos + 1
                /\ pc' = "loop"
    /\ UNCHANGED <<lang_map, raw_data, inventories, written>>
    /\ UNCHANGED funVars

\* The outer loop ends: the segment rows are built and the writer is called.
WriteTables ==
    /\ pc = "loop"
    /\ ItemDone
    /\ written' = Append(written,
           [ValueTable |-> values,
            LanguageTable |-> LanguageRowsOf(lang_map),
            ParameterTable |-> SegmentRows(parameters),
            inventories |-> inventories])
    /\ pc' = "done"
    /\ UNCHANGED <<lang_map, raw_data, seg_pos, values, parameters,
                   inventories, counter>>
    /\ UNCHANGED funVars

Next == NextLanguage \/ ProcessSegment \/ WriteTables

Spec == Init /\ [][Next]_vars

----------------------------------------------------------------------------
(* normalize_grapheme applied to a text and then to its own result.        *)

PipeOff ==
    /\ lang_map = << >>
    /\ raw_data = << >>
    /\ seg_pos = 1
    /\ values = << >>
    /\ parameters = << >>
    /\ inventories = << >>
    /\ counter = 1
    /\ written = << >>
    /\ pc = "off"

InitNorm ==
    /\ PipeOff
    /\ text \in SeqsUpTo(TextChars, MaxTextLen)
    /\ once = None
    /\ twice = None
    /\ s1 = << >>
    /\ s2 = << >>
    /\ id1 = None
    /\ id2 = None
    /\ phase = "start"

NormalizeOnce ==
    /\ phase = "start"
    /\ once' = normalize_grapheme(text)
    /\ phase' = "once"
    /\ UNCHANGED <<text, twice, s1, s2, id1, id2>>
    /\ UNCHANGED pipeVars

\* the second call happens when the first one returned
NormalizeTwice ==
    /\ phase = "once"
    /\ ~once.raised
    /\ twice' = normalize_grapheme(once.value)
    /\ phase' = "twice"
    /\ UNCHANGED <<text, once, s1, s2, id1, id2>>
    /\ UNCHANGED pipeVars

NextNorm == NormalizeOnce \/ NormalizeTwice

SpecNorm == InitNorm /\ [][NextNorm]_vars

----------------------------------------------------------------------------
(* compute_id applied to two texts.                                        *)

InitId ==
    /\ PipeOff
    /\ text = << >>
    /\ once = None
    /\ twice = None
    /\ s1 \in SeqsUpTo(IdChars, MaxIdLen)
    /\ s2 \in SeqsUpTo(IdChars, MaxIdLen)
    /\ id1 = None
    /\ id2 = None
    /\ phase = "start"

ComputeFirst ==
    /\ phase = "start"
    /\ id1' = compute_id(s1)
    /\ phase' = "first"
    /\ UNCHANGED <<text, once, twice, s1, s2, id2>>
    /\ UNCHANGED pipeVars

ComputeSecond ==
    /\ phase = "first"
    /\ id2' = compute_id(s2)
    /\ phase' = "second"
    /\ UNCHANGED <<text, once, twice, s1, s2, id1>>
    /\ UNCHANGED pipeVars

NextId == ComputeFirst \/ ComputeSecond

SpecId == InitId /\ [][NextId]_vars

----------------------------------------------------------------------------
(* C1: normalize_grapheme is idempotent: whenever normalize_grapheme(s)    *)
(* returns, normalize_grapheme applied to that result returns it           *)
(* unchanged.  (The code violates this, e.g. for "(())" and "[[]]".)       *)
C1_Idempotent ==
    phase = "twice" => (~twice.raised /\ twice.value = once.value)

----------------------------------------------------------------------------
(* C2: compute_id is injective: two texts that differ in at least one code *)
(* point (also code points above U+FFFF, also texts of different length)   *)
(* get different identifiers, and equal texts get equal identifiers.       *)
C2_Injective ==
    phase = "second" => ((s1 = s2) <=> (id1 = id2))

\* two different texts with the same label, one with a code point above
\* U+FFFF, have been encoded
C2_Witness ==
    /\ phase = "second"
    /\ s1 = <<33>>
    /\ s2 = <<65569>>
    /\ label(s1) = label(s2)
    /\ id1 # id2

----------------------------------------------------------------------------
(* What the claims about the inventory loop speak of.                      *)

\* The listed tokens in the order the data gives them: items in iteration
\* order, within an item the consonants before the vowels, each list in its
\* own order.
RECURSIVE Listed(_)
Listed(items) ==
    IF items = << >> THEN << >>
    ELSE LET h == Head(items)
             toks == h.langdata.cons \o h.langdata.vows
         IN  [i \in 1..Len(toks) |->
                 [language |-> h.language, segment |-> toks[i]]]
             \o Listed(Tail(items))

Unresolved(normalized) == bipa(normalized).unknown

\* The run keeps no log of unresolved graphemes: the accumulators of the
\* loop are values, parameters, inventories, counter and segment_set, and
\* none of them is keyed by grapheme or added to on an unknown sound.
UnknownLog == << >>

\* The input of the end-to-end example:
\* {"LangA": {"cons": ["k", "(k\u02B0)"], "vows": ["a"], "tones": []}}
Example ==
    <<[language |-> LangA,
       langdata |-> [cons |-> <<SegK, SegKhMarginal>>, vows |-> <<SegA>>,
                     tones |-> << >>]]>>

----------------------------------------------------------------------------
(* C3: after a run the parameter table has no two rows with the same ID;   *)
(* every normalized grapheme that occurs in any language has exactly one   *)
(* row, and the value table has one row per listed token.                  *)
C3_ParametersUnique ==
    pc = "done" =>
        LET table == written[1].ParameterTable
            toks == Listed(raw_data)
        IN  /\ \A p, q \in table : p.ID = q.ID => p = q
            /\ \A k \in 1..Len(toks) :
                  Cardinality({p \in table :
                      p.Name = normalize_grapheme(toks[k].segment).value}) = 1
            /\ Len(written[1].ValueTable) = Len(toks)

\* two languages list "k", once as "k" and once as "(k)": one row, two values
C3_Witness ==
    /\ pc = "done"
    /\ Len(raw_data) = 2
    /\ raw_data[1].langdata.cons = <<SegK>>
    /\ raw_data[2].langdata.cons = <<SegKMarginal>>
    /\ Cardinality({p \in written[1].ParameterTable : p.Name = SegK}) = 1
    /\ Len(written[1].ValueTable) >= 2

----------------------------------------------------------------------------
(* C4: the IDs of the value rows are "1", "2", ..., "N" in emission order: *)
(* the counter starts at 1, grows by one per row, is shared by all         *)
(* languages and never reset, so the k-th row has ID str(k) and no two     *)
(* rows share an ID.                                                       *)
C4_SequentialIds ==
    /\ counter = Len(values) + 1
    /\ \A k \in 1..Len(values) : values[k].ID = Str(k)
    /\ \A j, k \in 1..Len(values) : j # k => values[j].ID # values[k].ID

\* three rows over two languages
C4_Witness ==
    /\ Len(values) = 3
    /\ values[1].Language_ID # values[3].Language_ID
    /\ values[3].ID = <<51>>

----------------------------------------------------------------------------
(* C5: the marginal flag of a row is true exactly when the raw token       *)
(* starts with "(", whatever normalization does to the token: "(k)" is     *)
(* marginal with normalized grapheme "k", "k" is not marginal.             *)
C5_MarginalFromRaw ==
    LET toks == Listed(raw_data)
    IN  \A k \in 1..Len(values) :
        LET segment == toks[k].segment
        IN  /\ values[k].Marginal <=> (Head(segment) = LParen)
            /\ parameters[k][2] = normalize_grapheme(segment).value
            /\ segment = SegKMarginal =>
                  (values[k].Marginal /\ parameters[k][2] = SegK)
            /\ segment = SegK =>
                  (~values[k].Marginal /\ parameters[k][2] = SegK)

C5_Witness ==
    /\ Len(values) = 2
    /\ Listed(raw_data)[1].segment = SegKMarginal
    /\ values[1].Marginal
    /\ parameters[1][2] = SegK
    /\ Listed(raw_data)[2].segment = SegK
    /\ ~values[2].Marginal

----------------------------------------------------------------------------
(* C6: a token whose normalized grapheme is not in the transcription table *)
(* is recorded in the unknown log under the normalized grapheme, with at   *)
(* least one occurrence.  (The code keeps no such log.)                    *)
C6_UnknownLogged ==
    \A k \in 1..Len(parameters) :
        Unresolved(parameters[k][2]) =>
            /\ parameters[k][2] \in DOMAIN UnknownLog
            /\ Len(UnknownLog[parameters[k][2]]) >= 1

----------------------------------------------------------------------------
----------------------------------------------------------------------------
----------------------------------------------------------------------------
(* C9: a finished run has emitted exactly one value row per listed token,  *)
(* in the order languages / consonants before vowels / source order; the   *)
(* example input gives 3 rows with flags false, true, false, at most 3     *)
(* parameter rows and an empty Tones field.                                *)
C9_OneRowPerToken ==
    pc = "done" =>
        LET toks == Listed(raw_data)
            rows == written[1].ValueTable
        IN  /\ Len(rows) = Len(toks)
            /\ \A k \in 1..Len(toks) :
                  /\ rows[k].Value = toks[k].segment
                  /\ rows[k].Language_ID = lang_map[lang_key(toks[k].language)]
            /\ Cardinality(written[1].ParameterTable) <= Len(rows)
            /\ raw_data = Example =>
                  /\ Len(rows) = 3
                  /\ <<rows[1].Marginal, rows[2].Marginal, rows[3].Marginal>>
                        = <<FALSE, TRUE, FALSE>>
                  /\ Cardinality(written[1].ParameterTable) <= 3
                  /\ written[1].inventories[1].Tones = << >>

C9_Witness ==
    /\ pc = "done"
    /\ raw_data = Example
    /\ Len(written[1].ValueTable) = 3
    /\ written[1].ValueTable[2].Marginal

----------------------------------------------------------------------------
(* C10: the writer is called at most once and only after every language    *)
(* and token was processed; when a step fails first (a language key, the   *)
(* part before the first "#" without commas, missing from the mapping, or  *)
(* an empty token) the run aborts with nothing written: no language is     *)
(* skipped and no row has a null language.                                 *)
C10_WriteOnceOrAbort ==
    /\ Len(written) <= 1
    /\ pc = "aborted" => written = << >>
    /\ written # << >> =>
          LET toks == Listed(raw_data)
              rows == written[1].ValueTable
          IN  /\ pc = "done"
              /\ Len(rows) = Len(toks)
              /\ \A k \in 1..Len(toks) :
                    /\ toks[k].segment # << >>
                    /\ lang_key(toks[k].language) \in DOMAIN lang_map
                    /\ rows[k].Language_ID # None
                    /\ rows[k].Language_ID
                         = lang_map[lang_key(toks[k].language)]

\* a run aborted on a missing language key, after parameters.append
C10_Witness ==
    /\ pc = "aborted"
    /\ written = << >>
    /\ Current.language = <<76, 97, 110, 103, Comma, 66, Hash, 50>>
    /\ lang_key(Current.language) = LangB
    /\ LangB \notin DOMAIN lang_map
    /\ Len(parameters) = Len(values) + 1

====
